---- MODULE Spec2Model ----
(***************************************************************************)
(* Model of abbreviations/schwartz_hearst.py: the Schwartz-Hearst          *)
(* abbreviation/definition extraction pipeline.                            *)
(*                                                                         *)
(* A Python str is a sequence of one-character strings.  Python indices    *)
(* are 0-based; the operators below take and return Python indices and     *)
(* convert to the 1-based TLA+ sequences only when a character is read.    *)
(***************************************************************************)
EXTENDS Integers, Sequences, FiniteSets, TLC

VARIABLES doc, i, sentence, closeindex, candidate, definition,
          abbrev_map, omit, written, pc, last

vars == <<doc, i, sentence, closeindex, candidate, definition,
          abbrev_map, omit, written, pc, last>>

(***************************************************************************)
(* Characters and the str methods the program uses.                        *)
(***************************************************************************)
Letters == {"a", "b", "A", "B"}
Digits == {"1"}

IsSpace(c) == c = " "
IsLetter(c) == c \in Letters
IsAlnum(c) == c \in Letters \cup Digits

LowerChar(c) == IF c = "A" THEN "a" ELSE IF c = "B" THEN "b" ELSE c

Lower(s) == [k \in 1..Len(s) |-> LowerChar(s[k])]

MinOf(S) == CHOOSE x \in S : \A y \in S : x <= y
MaxOf(S) == CHOOSE x \in S : \A y \in S : x >= y

\* A slice bound as Python normalises it: a negative bound counts from the
\* end, and the result is clamped to 0..len.
SliceBound(n, len) ==
    LET m == IF n < 0 THEN n + len ELSE n
    IN IF m < 0 THEN 0 ELSE IF m > len THEN len ELSE m

\* s[lo:hi]
PySlice(s, lo, hi) ==
    LET a == SliceBound(lo, Len(s))
        b == SliceBound(hi, Len(s))
    IN IF a >= b THEN << >> ELSE SubSeq(s, a + 1, b)

\* s.count(c)
Count(s, c) == Cardinality({k \in 1..Len(s) : s[k] = c})

\* s.find(c, from), from >= 0
Find(s, c, from) ==
    LET S == {k \in from..(Len(s) - 1) : s[k + 1] = c}
    IN IF S = {} THEN -1 ELSE MinOf(S)

\* len(s) - len(s.lstrip())
LeadingSpaces(s) ==
    LET S == {k \in 1..Len(s) : ~IsSpace(s[k])}
    IN IF S = {} THEN Len(s) ELSE MinOf(S) - 1

LStrip(s) == SubSeq(s, LeadingSpaces(s) + 1, Len(s))

RStrip(s) ==
    LET S == {k \in 1..Len(s) : ~IsSpace(s[k])}
    IN IF S = {} THEN << >> ELSE SubSeq(s, 1, MaxOf(S))

Strip(s) == RStrip(LStrip(s))

\* s.split(): the maximal runs of non-whitespace, in order
RECURSIVE Split(_)
Split(s) ==
    LET t == LStrip(s)
    IN IF t = << >> THEN << >>
       ELSE LET e == Find(t, " ", 0)
                n == IF e = -1 THEN Len(t) ELSE e
            IN <<SubSeq(t, 1, n)>> \o Split(SubSeq(t, n + 1, Len(t)))

(***************************************************************************)
(* class Candidate(str): a string value with start and stop attributes.    *)
(***************************************************************************)
Candidate(start, stop, value) == [start |-> start, stop |-> stop, value |-> value]

(***************************************************************************)
(* conditions(candidate)                                                   *)
(***************************************************************************)
\* regex.match('(\p{L}\.?\s?){2,}', c): a letter, an optional dot, an optional
\* whitespace character, and then a second letter.
RegexTwoLetters(c) ==
    /\ Len(c) >= 1
    /\ IsLetter(c[1])
    /\ LET p == IF Len(c) >= 2 /\ c[2] = "." THEN 3 ELSE 2
           q == IF Len(c) >= p /\ IsSpace(c[p]) THEN p + 1 ELSE p
       IN Len(c) >= q /\ IsLetter(c[q])

conditions(c) ==
    IF RegexTwoLetters(LStrip(c)) THEN TRUE
    ELSE IF Len(c) < 2 \/ Len(c) > 10 THEN FALSE
    ELSE IF Len(Split(c)) > 2 THEN FALSE
    ELSE IF ~(\E k \in 1..Len(c) : IsLetter(c[k])) THEN FALSE
    ELSE IF ~IsAlnum(c[1]) THEN FALSE
    ELSE TRUE

(***************************************************************************)
(* best_candidates(sentence): a generator.  BestCandidatesEntry is the     *)
(* code run by the first next() before the loop; NextCandidate resumes     *)
(* the loop from the generator's saved closeindex up to the next yield.    *)
(***************************************************************************)
BestCandidatesEntry(s) ==
    IF Count(s, "(") > 0
    THEN IF Count(s, "(") # Count(s, ")") THEN "Unbalanced parentheses"
         ELSE IF Find(s, "(", 0) > Find(s, ")", 0) THEN "First parentheses is right"
         ELSE "loop"
    ELSE "return"

\* the inner `while open` loop: the index after the matching ')', or -1 when
\* the read of sentence[closeindex] raises IndexError
RECURSIVE MatchClose(_, _, _)
MatchClose(s, ci, open) ==
    IF open = 0 THEN ci
    ELSE IF ci >= Len(s) THEN -1
    ELSE LET char == s[ci + 1]
         IN MatchClose(s, ci + 1,
                       IF char = "(" THEN open + 1
                       ELSE IF char = ")" THEN open - 1 ELSE open)

\* One resumption of the generator: from the saved closeindex to the next
\* yield (the candidate and the closeindex saved with it) or to the end.
RECURSIVE NextCandidate(_, _)
NextCandidate(s, ci) ==
    LET openindex == Find(s, "(", ci + 1)
    IN IF openindex = -1 THEN [kind |-> "stop"]
       ELSE LET close == MatchClose(s, openindex + 1, 1)
            IN IF close = -1
               THEN NextCandidate(s, openindex + 1)
               ELSE LET start0 == openindex + 1
                        stop0 == close - 1
                        raw == PySlice(s, start0, stop0)
                        start == start0 + LeadingSpaces(raw)
                        stop == stop0 - Len(raw) + Len(RStrip(raw))
                        value == PySlice(s, start, stop)
                    IN IF conditions(value)
                       THEN [kind |-> "yield",
                             cand |-> Candidate(start, stop, value),
                             closeindex |-> close]
                       ELSE NextCandidate(s, close)

(***************************************************************************)
(* get_definition(candidate, sentence)                                     *)
(***************************************************************************)
\* tokens = sentence[:candidate.start - 2].lower().split()
LocatorTokens(cand, s) == Split(Lower(PySlice(s, 0, cand.start - 2)))

\* key = candidate[0].lower()
LocatorKey(cand) == LowerChar(cand.value[1])

\* firstchars = [t[0] for t in tokens]
FirstChars(tokens) == [k \in 1..Len(tokens) |-> tokens[k][1]]

\* firstchars.index(key, from): the first index >= from holding key, or -1
\* for the ValueError.  A negative from counts from the end, as in a slice.
ListIndex(fc, key, from) == Find(fc, key, SliceBound(from, Len(fc)))

\* LocatorScan with firstchars.index(key) searching from the front of the
\* list instead of from len(firstchars) + start.  The variant that C8 excludes.
RECURSIVE LocatorScanFromFront(_, _, _, _, _, _)
LocatorScanFromFront(fc, key, freq, count, start, startindex) ==
    IF count < freq
    THEN IF (IF start < 0 THEN -start ELSE start) > Len(fc) THEN -1
         ELSE LET found == ListIndex(fc, key, 0)
                  si == IF found = -1 THEN startindex ELSE found
              IN LocatorScanFromFront(fc, key, freq,
                                      Count(PySlice(fc, si, Len(fc)), key),
                                      start - 1, si)
    ELSE startindex

\* The while loop of lines 163-174 from the state (count, start, startindex):
\* the startindex it ends with, or -1 for the "not found" ValueError.
RECURSIVE LocatorScan(_, _, _, _, _, _)
LocatorScan(fc, key, freq, count, start, startindex) ==
    IF count < freq
    THEN IF (IF start < 0 THEN -start ELSE start) > Len(fc) THEN -1
         ELSE LET start2 == start - 1
                  found == ListIndex(fc, key, Len(fc) + start2)
                  si == IF found = -1 THEN startindex ELSE found
              IN LocatorScan(fc, key, freq,
                             Count(PySlice(fc, si, Len(fc)), key), start2, si)
    ELSE startindex

\* len(' '.join(tokens[:startindex]))
RECURSIVE JoinLen(_)
JoinLen(toks) ==
    IF toks = << >> THEN 0
    ELSE IF Len(toks) = 1 THEN Len(toks[1])
    ELSE Len(toks[1]) + 1 + JoinLen(Tail(toks))

\* start = len(' '.join(tokens[:startindex]))
StartOffset(tokens, startindex) == JoinLen(PySlice(tokens, 0, startindex))

\* stop = candidate.start - 1
StopOffset(cand) == cand.start - 1

get_definition(cand, s) ==
    LET tokens == LocatorTokens(cand, s)
        key == LocatorKey(cand)
        firstchars == FirstChars(tokens)
        definition_freq == Count(firstchars, key)
        candidate_freq == Count(Lower(cand.value), key)
    IN IF candidate_freq <= definition_freq
       THEN LET startindex == LocatorScan(firstchars, key, candidate_freq,
                                          0, 0, Len(firstchars) - 1)
            IN IF startindex = -1
               THEN [kind |-> "ValueError", reason |-> "not found"]
               ELSE LET start0 == StartOffset(tokens, startindex)
                        stop0 == StopOffset(cand)
                        raw == PySlice(s, start0, stop0)
                        start == start0 + LeadingSpaces(raw)
                        stop == stop0 - Len(raw) + Len(RStrip(raw))
                    IN [kind |-> "ok",
                        def |-> Candidate(start, stop, PySlice(s, start, stop))]
       ELSE [kind |-> "ValueError", reason |-> "less keys"]

(***************************************************************************)
(* select_definition(definition, abbrev)                                   *)
(***************************************************************************)
\* s[k] for a negative Python index k that is in range
NegAt(s, k) == s[Len(s) + k + 1]

\* The alignment loop of lines 213-240 from (sindex, lindex): the lindex at
\* the break, or the exception that leaves the loop.
RECURSIVE AlignLoop(_, _, _, _)
AlignLoop(def, abbrev, sindex, lindex) ==
    IF lindex < -Len(def) \/ sindex < -Len(abbrev)
    THEN [kind |-> "IndexError"]
    ELSE LET longchar == LowerChar(NegAt(def, lindex))
             shortchar == LowerChar(NegAt(abbrev, sindex))
             s2 == IF ~IsAlnum(shortchar) THEN sindex - 1 ELSE sindex
         IN IF s2 = -Len(abbrev)
            THEN IF shortchar = longchar
                 THEN IF lindex = -Len(def) \/ ~IsAlnum(NegAt(def, lindex - 1))
                      THEN [kind |-> "break", lindex |-> lindex]
                      ELSE AlignLoop(def, abbrev, s2, lindex - 1)
                 ELSE IF lindex - 1 = -(Len(def) + 1)
                      THEN [kind |-> "ValueError", reason |-> "was not found"]
                      ELSE AlignLoop(def, abbrev, s2, lindex - 1)
            ELSE IF shortchar = longchar
                 THEN AlignLoop(def, abbrev, s2 - 1, lindex - 1)
                 ELSE AlignLoop(def, abbrev, s2, lindex - 1)

\* min([length + 5, length * 2])
MaxTokens(length) == IF length + 5 < length * 2 THEN length + 5 ELSE length * 2

\* Candidate(definition.start, definition.stop, definition[lindex:len(definition)])
Narrowed(def, lindex) ==
    Candidate(def.start, def.stop, PySlice(def.value, lindex, Len(def.value)))

\* `abbrev in definition.split()`
FullWord(def, abbrev) ==
    \E k \in 1..Len(Split(def.value)) : Split(def.value)[k] = abbrev.value

select_definition(def, abbrev) ==
    IF Len(def.value) < Len(abbrev.value)
    THEN [kind |-> "ValueError", reason |-> "longer than definition"]
    ELSE IF FullWord(def, abbrev)
    THEN [kind |-> "ValueError", reason |-> "full word"]
    ELSE LET r == AlignLoop(def.value, abbrev.value, -1, -1)
         IN IF r.kind # "break" THEN r
            ELSE LET d == Narrowed(def, r.lindex)
                 IN IF Len(Split(d.value)) > MaxTokens(Len(abbrev.value))
                    THEN [kind |-> "ValueError", reason |-> "min constraint"]
                    ELSE IF Count(d.value, "(") # Count(d.value, ")")
                    THEN [kind |-> "ValueError", reason |-> "unbalanced definition"]
                    ELSE [kind |-> "ok", def |-> d]

\* list(best_candidates(sentence)): the generator run to its end
RECURSIVE CandidatesFrom(_, _)
CandidatesFrom(s, ci) ==
    LET r == NextCandidate(s, ci)
    IN IF r.kind = "stop" THEN << >>
       ELSE <<r.cand>> \o CandidatesFrom(s, r.closeindex)

LineIsFatal(s) == BestCandidatesEntry(s) \notin {"loop", "return"}

best_candidates(s) == IF LineIsFatal(s) THEN << >> ELSE CandidatesFrom(s, -1)

(***************************************************************************)
(* extract_abbreviation_definition_pairs(doc_text=...)                     *)
(*                                                                         *)
(* doc is doc_text.split("\n").  pc is the position in the function:       *)
(*   start     lines 258-266                                               *)
(*   fetch     the outer for: the next line, and best_candidates' entry    *)
(*   scan      the inner for: the generator's next()                       *)
(*   locate    line 272, get_definition                                    *)
(*   validate  line 278, select_definition                                 *)
(*   done      line 291, abbrev_map returned                               *)
(* last is the message of the latest log.debug call.                       *)
(***************************************************************************)
None == Candidate(-1, -1, << >>)

\* MapPut with first-write-wins (dict.setdefault): the variant that C1 excludes
MapPutIfAbsent(m, key, value) ==
    [k \in DOMAIN m \cup {key} |-> IF k \in DOMAIN m THEN m[k] ELSE value]

\* abbrev_map[key] = value
MapPut(m, key, value) ==
    [k \in DOMAIN m \cup {key} |-> IF k = key THEN value ELSE m[k]]

\* yield_lines_from_doc: line.strip()
LineOf(d, n) == Strip(d[n + 1])

\* `elif doc_text:` is false for the empty text, whose split is one empty line
DocTextEmpty(d) == d = << << >> >>

Start ==
    /\ pc = "start"
    /\ pc' = IF DocTextEmpty(doc) THEN "done" ELSE "fetch"
    /\ UNCHANGED <<doc, i, sentence, closeindex, candidate, definition,
                   abbrev_map, omit, written, last>>

\* the next line; best_candidates runs to its loop
FetchLine ==
    /\ pc = "fetch"
    /\ i < Len(doc)
    /\ BestCandidatesEntry(LineOf(doc, i)) \in {"loop", "return"}
    /\ sentence' = LineOf(doc, i)
    /\ i' = i + 1
    /\ closeindex' = -1
    /\ pc' = "scan"
    /\ UNCHANGED <<doc, candidate, definition, abbrev_map, omit, written, last>>

\* LineFatal with the try of line 269 around the outer for: the ValueError
\* ends the document.  The variant that C2 excludes.
LineFatalEndsDocument ==
    /\ pc = "fetch"
    /\ i < Len(doc)
    /\ BestCandidatesEntry(LineOf(doc, i)) \notin {"loop", "return"}
    /\ sentence' = LineOf(doc, i)
    /\ i' = i + 1
    /\ last' = "Error"
    /\ pc' = "done"
    /\ UNCHANGED <<doc, closeindex, candidate, definition, abbrev_map, omit, written>>

\* the next line; best_candidates raises ValueError, caught at line 288
LineFatal ==
    /\ pc = "fetch"
    /\ i < Len(doc)
    /\ BestCandidatesEntry(LineOf(doc, i)) \notin {"loop", "return"}
    /\ sentence' = LineOf(doc, i)
    /\ i' = i + 1
    /\ last' = "Error"
    /\ pc' = "fetch"
    /\ UNCHANGED <<doc, closeindex, candidate, definition, abbrev_map, omit, written>>

\* the lines are exhausted: line 290, return abbrev_map
Finish ==
    /\ pc = "fetch"
    /\ i = Len(doc)
    /\ last' = "detected and kept"
    /\ pc' = "done"
    /\ UNCHANGED <<doc, i, sentence, closeindex, candidate, definition,
                   abbrev_map, omit, written>>

\* the generator yields the next candidate
Yield ==
    /\ pc = "scan"
    /\ LET r == NextCandidate(sentence, closeindex)
       IN /\ r.kind = "yield"
          /\ candidate' = r.cand
          /\ closeindex' = r.closeindex
    /\ pc' = "locate"
    /\ UNCHANGED <<doc, i, sentence, definition, abbrev_map, omit, written, last>>

\* the generator ends: the inner for is over
Exhausted ==
    /\ pc = "scan"
    /\ NextCandidate(sentence, closeindex).kind = "stop"
    /\ pc' = "fetch"
    /\ UNCHANGED <<doc, i, sentence, closeindex, candidate, definition,
                   abbrev_map, omit, written, last>>

\* get_definition returns
Located ==
    /\ pc = "locate"
    /\ LET r == get_definition(candidate, sentence)
       IN /\ r.kind = "ok"
          /\ definition' = r.def
    /\ pc' = "validate"
    /\ UNCHANGED <<doc, i, sentence, closeindex, candidate, abbrev_map,
                   omit, written, last>>

\* OmitCandidate with the try of line 271 around the inner for: the ValueError
\* ends the line.  The variant that C3 excludes.
OmitCandidateEndsLine ==
    /\ pc = "locate"
    /\ get_definition(candidate, sentence).kind = "ValueError"
    /\ omit' = omit + 1
    /\ last' = "Omitting candidate"
    /\ pc' = "fetch"
    /\ UNCHANGED <<doc, i, sentence, closeindex, candidate, definition,
                   abbrev_map, written>>

\* get_definition raises ValueError: lines 273-275
OmitCandidate ==
    /\ pc = "locate"
    /\ get_definition(candidate, sentence).kind = "ValueError"
    /\ omit' = omit + 1
    /\ last' = "Omitting candidate"
    /\ pc' = "scan"
    /\ UNCHANGED <<doc, i, sentence, closeindex, candidate, definition,
                   abbrev_map, written>>

\* select_definition raises IndexError: lines 279-281
OmitIndexError ==
    /\ pc = "validate"
    /\ select_definition(definition, candidate).kind = "IndexError"
    /\ omit' = omit + 1
    /\ last' = "Omitting definition"
    /\ pc' = "scan"
    /\ UNCHANGED <<doc, i, sentence, closeindex, candidate, definition,
                   abbrev_map, written>>

\* OmitDefinition with line 286 after the try instead of in its else: the
\* rejected definition is stored.  The variant that C5 excludes.
OmitDefinitionStores ==
    /\ pc = "validate"
    /\ select_definition(definition, candidate).kind = "ValueError"
    /\ omit' = omit + 1
    /\ abbrev_map' = MapPut(abbrev_map, candidate.value, definition)
    /\ last' = "Omitting definition. Reason"
    /\ pc' = "scan"
    /\ UNCHANGED <<doc, i, sentence, closeindex, candidate, definition, written>>

\* select_definition raises ValueError: lines 282-284
OmitDefinition ==
    /\ pc = "validate"
    /\ select_definition(definition, candidate).kind = "ValueError"
    /\ omit' = omit + 1
    /\ last' = "Omitting definition. Reason"
    /\ pc' = "scan"
    /\ UNCHANGED <<doc, i, sentence, closeindex, candidate, definition,
                   abbrev_map, written>>

\* select_definition returns: lines 285-287
Keep ==
    /\ pc = "validate"
    /\ LET r == select_definition(definition, candidate)
       IN /\ r.kind = "ok"
          /\ definition' = r.def
          /\ abbrev_map' = MapPut(abbrev_map, candidate.value, r.def)
    /\ written' = written + 1
    /\ last' = "kept"
    /\ pc' = "scan"
    /\ UNCHANGED <<doc, i, sentence, closeindex, candidate, omit>>

Next ==
    \/ Start
    \/ FetchLine
    \/ LineFatal
    \/ Finish
    \/ Yield
    \/ Exhausted
    \/ Located
    \/ OmitCandidate
    \/ OmitIndexError
    \/ OmitDefinition
    \/ Keep

InitState ==
    /\ i = 0
    /\ sentence = << >>
    /\ closeindex = -1
    /\ candidate = None
    /\ definition = None
    /\ abbrev_map = << >>
    /\ omit = 0
    /\ written = 0
    /\ pc = "start"
    /\ last = "none"

(***************************************************************************)
(* extract_abbreviation_definition_pairs as a function of the document:    *)
(* the loops of lines 268-289 folded over the lines and their candidates.  *)
(***************************************************************************)
\* lines 271-287 for one candidate: the validated definition or the failure
Validate(cand, s) ==
    LET g == get_definition(cand, s)
    IN IF g.kind = "ok" THEN select_definition(g.def, cand) ELSE g

RECURSIVE FoldCandidates(_, _, _)
FoldCandidates(m, s, cands) ==
    IF cands = << >> THEN m
    ELSE LET v == Validate(Head(cands), s)
         IN FoldCandidates(IF v.kind = "ok"
                           THEN MapPut(m, Head(cands).value, v.def) ELSE m,
                           s, Tail(cands))

RECURSIVE FoldLines(_, _, _)
FoldLines(m, d, n) ==
    IF n = Len(d) THEN m
    ELSE FoldLines(FoldCandidates(m, LineOf(d, n), best_candidates(LineOf(d, n))),
                   d, n + 1)

ExtractPairs(d) == IF DocTextEmpty(d) THEN << >> ELSE FoldLines(<< >>, d, 0)

(***************************************************************************)
(* Inputs.  A line is a prefix of up to MaxWords words, each followed by a  *)
(* separator, and a tail: a parenthesised group and what follows it.  A    *)
(* document is a sequence of up to MaxLines lines.                         *)
(***************************************************************************)
MaxWords == 3
MaxLines == 2

Words == { << >>, <<"a">>, <<"b">>, <<"a", "b">> }
Seps == { <<" ">>, <<"-">> }

Groups ==
    { <<"(", "A", "b", ")">>,
      <<"(", "a", "b", ")">>,
      <<"(", " ", "A", "b", ")">>,
      <<"(", "A", "-", ")">>,
      <<"(", "A", "a", ")">>,
      <<"(", "b", ")">> }

\* tails whose parentheses are unbalanced or misordered
FatalTails == { <<"(", "A", "b">>, <<")", "A", "b", "(">>, <<"(", "A", "b", ")", "(">> }

\* what may follow the first group of a line
Suffixes ==
    { <<"(", "A", "b", ")">>,
      <<" ", "a", "b", " ", "(", "A", "b", ")">>,
      <<")", "(", "(", "A", "b", ")">> }

\* a group alone, or a group accepted or rejected by conditions and a suffix
Tails ==
    Groups
    \cup { <<"(", "A", "b", ")">> \o sx : sx \in Suffixes }
    \cup { <<"(", "b", ")">> \o sx : sx \in Suffixes }
    \cup FatalTails

RECURSIVE Prefixes(_)
Prefixes(n) ==
    IF n = 0 THEN { << >> }
    ELSE Prefixes(n - 1) \cup
         { p \o w \o sp : p \in Prefixes(n - 1), w \in Words, sp \in Seps }

\* words separated by more than one space in front of a group
SpacedLines == { <<"b", " ", " ", "b", " ", "a", " ", "(", "A", "b", ")">> }

Lines ==
    { p \o t : p \in Prefixes(MaxWords), t \in Tails } \cup SpacedLines

\* the lines of the documents of several lines
DocPrefixes == { <<"a", "b", " ">>, <<"a", " ", "b", " ">>, <<"b", " ">> }
DocGroups == { <<"(", "A", "b", ")">>, <<"(", "a", "b", ")">>, <<"(", "A", "b">> }
DocSuffixes ==
    { << >>,
      <<" ", "a", " ", "b", " ", "(", "A", "b", ")">>,
      <<" ", "a", "a", " ", "(", "A", "b", ")">> }

\* lines with as many '(' as ')' whose first ')' precedes the first '(', and
\* which hold a group the loop would yield
DocMisordered ==
    { <<")", " ", "a", "b", " ", "(", "A", "b", ")", "(">>,
      <<"a", "b", ")", " ", "(", "A", "b", ")", "(">> }

DocLines ==
    { p \o g \o sx : p \in DocPrefixes, g \in DocGroups, sx \in DocSuffixes }
    \cup DocMisordered

\* documents of up to MaxLines lines, and the empty text
Init ==
    /\ \E n \in 0..MaxLines :
          IF n = 0 THEN doc = << << >> >> ELSE doc \in [1..n -> DocLines]
    /\ InitState

Spec == Init /\ [][Next]_vars

\* documents of one line
InitLine == doc \in { <<l>> : l \in Lines } /\ InitState

SpecLine == InitLine /\ [][Next]_vars

(***************************************************************************)
(* Properties.                                                             *)
(***************************************************************************)
Done == pc = "done"

\* The occurrences of the document in processing order (line order, then
\* left to right within a line): each candidate with its line number and
\* the outcome of the two stages.
OccurrencesOfLine(s, j) ==
    LET cs == best_candidates(s)
    IN [n \in 1..Len(cs) |-> [line |-> j, cand |-> cs[n], res |-> Validate(cs[n], s)]]

RECURSIVE OccurrencesFrom(_, _)
OccurrencesFrom(d, n) ==
    IF n = Len(d) THEN << >>
    ELSE OccurrencesOfLine(LineOf(d, n), n + 1) \o OccurrencesFrom(d, n + 1)

Occurrences(d) == IF DocTextEmpty(d) THEN << >> ELSE OccurrencesFrom(d, 0)

\* the positions of the occurrences of abbreviation text k that pass both stages
ValidAt(occ, k) ==
    { n \in 1..Len(occ) : occ[n].cand.value = k /\ occ[n].res.kind = "ok" }

LastWriteMap(d) ==
    LET occ == Occurrences(d)
    IN [k \in { occ[n].cand.value : n \in { m \in 1..Len(occ) : occ[m].res.kind = "ok" } }
          |-> occ[MaxOf(ValidAt(occ, k))].res.def]

\* C1: when the document has been processed, the map holds, for exactly the
\* abbreviation texts with a validated occurrence, the definition validated
\* for the last such occurrence (line order, then left to right).
C1_LastWriteWins == Done => abbrev_map = LastWriteMap(doc)

\* C1 witness: a text validated on two lines with different definitions and
\* omitted at a still later occurrence; the map holds the second definition.
C1_Witness ==
    /\ Done
    /\ LET occ == Occurrences(doc)
       IN \E n1, n2, n3 \in 1..Len(occ) :
            /\ n1 < n2 /\ n2 < n3
            /\ occ[n1].line < occ[n2].line
            /\ occ[n1].cand.value = occ[n2].cand.value
            /\ occ[n3].cand.value = occ[n2].cand.value
            /\ occ[n1].res.kind = "ok"
            /\ occ[n2].res.kind = "ok"
            /\ occ[n3].res.kind # "ok"
            /\ occ[n1].res.def.value # occ[n2].res.def.value
            /\ abbrev_map[occ[n2].cand.value] = occ[n2].res.def

\* the line-fatal lines as the claim describes them: the counts of '(' and
\* ')' differ, or the first ')' precedes the first '('
FatalByCount(s) ==
    /\ \E k \in 1..Len(s) : s[k] = "("
    /\ Count(s, "(") # Count(s, ")")

FatalByOrder(s) ==
    /\ \E k \in 1..Len(s) : s[k] = "("
    /\ \E k \in 1..Len(s) :
          /\ s[k] = ")"
          /\ \A k2 \in 1..k : s[k2] # "("

ClaimFatal(s) == FatalByCount(s) \/ FatalByOrder(s)

\* the document without its line j (the empty text when it was the only line)
RemoveLine(d, j) ==
    IF Len(d) = 1 THEN << << >> >>
    ELSE SubSeq(d, 1, j - 1) \o SubSeq(d, j + 1, Len(d))

\* C2: a line-fatal line yields no candidate and the returned map is the map
\* returned for the document without that line.
C2_LineFatalIsolation ==
    Done => \A j \in 1..Len(doc) :
               ClaimFatal(LineOf(doc, j - 1)) =>
                  /\ best_candidates(LineOf(doc, j - 1)) = << >>
                  /\ abbrev_map = ExtractPairs(RemoveLine(doc, j))

\* C2 witness: a line whose counts are equal and whose first ')' precedes
\* its first '(', holding a group that the loop would yield and both stages
\* would accept, followed by a line that adds an entry.
C2_Witness ==
    /\ Done
    /\ Len(doc) >= 2
    /\ FatalByOrder(LineOf(doc, 0))
    /\ ~FatalByCount(LineOf(doc, 0))
    /\ LET cs == CandidatesFrom(LineOf(doc, 0), -1)
       IN cs # << >> /\ Validate(cs[1], LineOf(doc, 0)).kind = "ok"
    /\ ~ClaimFatal(LineOf(doc, 1))
    /\ abbrev_map # << >>

\* a candidate-local failure at the current position
FailsHere ==
    \/ pc = "locate" /\ get_definition(candidate, sentence).kind # "ok"
    \/ pc = "validate" /\ select_definition(definition, candidate).kind # "ok"

\* C3: a failing candidate is counted as omitted and changes nothing else:
\* the map, the line and the generator's position stay, and the loop goes on
\* to the generator's next candidate; in the end every candidate of every
\* line was run (kept or omitted) and every validating one is in the map.
C3_CandidateLocal ==
    /\ [][FailsHere =>
            /\ abbrev_map' = abbrev_map
            /\ omit' = omit + 1
            /\ written' = written
            /\ pc' = "scan"
            /\ sentence' = sentence
            /\ closeindex' = closeindex
            /\ i' = i]_vars
    /\ [](Done =>
            LET occ == Occurrences(doc)
                kept == { n \in 1..Len(occ) : occ[n].res.kind = "ok" }
            IN /\ omit + written = Len(occ)
               /\ written = Cardinality(kept)
               /\ \A n \in kept : occ[n].cand.value \in DOMAIN abbrev_map)

\* C3 witness: a line whose first candidate fails and whose second candidate
\* is kept all the same.
C3_Witness ==
    /\ Done
    /\ \E j \in 1..Len(doc) :
         LET s == LineOf(doc, j - 1)
             cs == best_candidates(s)
         IN /\ Len(cs) >= 2
            /\ Validate(cs[1], s).kind # "ok"
            /\ Validate(cs[2], s).kind = "ok"
            /\ abbrev_map[cs[2].value] = Validate(cs[2], s).def
    /\ omit >= 1
    /\ written >= 1

(***************************************************************************)
(* Properties of one line.                                                 *)
(***************************************************************************)
\* the candidate's group opens the line: the line's first character is a
\* '(' and only whitespace lies between it and the candidate
AtLineStart(cand, s) ==
    /\ cand.start >= 1
    /\ Len(s) >= 1
    /\ s[1] = "("
    /\ \A k \in 2..cand.start : IsSpace(s[k])

\* C5: the candidate of a group that opens its line is never kept: the step
\* that ends its processing counts it as omitted and leaves the map as it was.
C5_NoPrecedingText ==
    [][(pc \in {"locate", "validate"} /\ AtLineStart(candidate, sentence) /\ pc' = "scan")
          => (abbrev_map' = abbrev_map /\ written' = written /\ omit' = omit + 1)]_vars

\* C5 witness: such a candidate with text after its closing parenthesis,
\* for which get_definition returned and select_definition raised.
C5_Witness ==
    /\ pc = "scan"
    /\ AtLineStart(candidate, sentence)
    /\ closeindex < Len(sentence)
    /\ get_definition(candidate, sentence).kind = "ok"
    /\ last = "Omitting definition. Reason"
    /\ omit = 1
    /\ abbrev_map = << >>

\* the number of key-initial tokens in tokens[n:]
KeyInitialFrom(tokens, key, n) ==
    Cardinality({ k \in (n + 1)..Len(tokens) : tokens[k][1] = key })

\* C8: with candidate_freq <= definition_freq the scan raises no "not found"
\* and ends at the largest index whose suffix of tokens holds candidate_freq
\* key-initial tokens; the token there starts with key and the suffix holds
\* exactly candidate_freq of them.
C8_WindowChoice ==
    pc = "locate" =>
       LET tokens == LocatorTokens(candidate, sentence)
           key == LocatorKey(candidate)
           fc == FirstChars(tokens)
           freq == Count(Lower(candidate.value), key)
           si == LocatorScan(fc, key, freq, 0, 0, Len(fc) - 1)
       IN freq <= Count(fc, key) =>
             /\ get_definition(candidate, sentence).kind = "ok"
             /\ si \in 0..(Len(tokens) - 1)
             /\ si = MaxOf({ n \in 0..(Len(tokens) - 1) :
                               KeyInitialFrom(tokens, key, n) >= freq })
             /\ tokens[si + 1][1] = key
             /\ KeyInitialFrom(tokens, key, si) = freq

\* C8 witness: a candidate holding its key twice, with a token in front of
\* the chosen window.
C8_Witness ==
    /\ pc = "locate"
    /\ LET tokens == LocatorTokens(candidate, sentence)
           key == LocatorKey(candidate)
           fc == FirstChars(tokens)
           freq == Count(Lower(candidate.value), key)
           si == LocatorScan(fc, key, freq, 0, 0, Len(fc) - 1)
       IN /\ freq = 2
          /\ freq <= Count(fc, key)
          /\ si >= 1

\* C4: the Span Candidate returned by select_definition lies within the line
\* and the line sliced at its offsets is its value.  (Stated for the
\* abbreviations made of alphanumeric characters only.)
C4_OffsetsClaim ==
    (pc = "scan" /\ last = "kept"
       /\ \A k \in 1..Len(candidate.value) : IsAlnum(candidate.value[k])) =>
       /\ 0 <= definition.start
       /\ definition.start <= definition.stop
       /\ definition.stop <= Len(sentence)
       /\ PySlice(sentence, definition.start, definition.stop) = definition.value

\* C6: no abbreviation of the map is a whitespace-split token of the
\* definition it is mapped to.
C6_FullWordClaim ==
    \A k \in DOMAIN abbrev_map :
       \A n \in 1..Len(Split(abbrev_map[k].value)) :
          Split(abbrev_map[k].value)[n] # k

\* The candidates as C7 describes them: from each '(' outside the groups
\* already matched, its matching ')' if there is one; the scan goes on right
\* after that ')' , or right after the '(' when it has no match.
RECURSIVE ClaimedCandidates(_, _)
ClaimedCandidates(s, from) ==
    LET openindex == Find(s, "(", from)
    IN IF openindex = -1 THEN << >>
       ELSE LET close == MatchClose(s, openindex + 1, 1)
            IN IF close = -1 THEN ClaimedCandidates(s, openindex + 1)
               ELSE LET raw == PySlice(s, openindex + 1, close - 1)
                        start == openindex + 1 + LeadingSpaces(raw)
                        value == Strip(raw)
                    IN (IF conditions(value)
                        THEN <<Candidate(start, start + Len(value), value)>>
                        ELSE << >>)
                       \o ClaimedCandidates(s, close)

\* C7: for a line that passes the balance and ordering checks the generator
\* yields exactly those candidates, in that order.
C7_FinderClaim ==
    (pc = "scan" /\ closeindex = -1) =>
       CandidatesFrom(sentence, -1) = ClaimedCandidates(sentence, 0)

\* the offset in s of its n-th whitespace-separated word (n from 0)
RECURSIVE WordOffset(_, _, _)
WordOffset(s, n, from) ==
    LET b == from + LeadingSpaces(PySlice(s, from, Len(s)))
        e == Find(s, " ", b)
    IN IF n = 0 THEN b ELSE WordOffset(s, n - 1, IF e = -1 THEN Len(s) ELSE e)

\* the index of the '(' that opens the candidate's group
OpenIndex(cand, s) == MaxOf({ k \in 0..(cand.start - 1) : s[k + 1] = "(" })

\* C9: the span returned by get_definition starts where the chosen starting
\* token starts in the line and ends with the last character that is not
\* whitespace before the candidate's opening parenthesis.  (Stated for the
\* candidates with text in front of their group.)
C9_SpanClaim ==
    (pc = "validate" /\ ~AtLineStart(candidate, sentence)) =>
       LET tokens == LocatorTokens(candidate, sentence)
           fc == FirstChars(tokens)
           si == LocatorScan(fc, LocatorKey(candidate),
                             Count(Lower(candidate.value), LocatorKey(candidate)),
                             0, 0, Len(fc) - 1)
           from == WordOffset(sentence, si, 0)
           before == PySlice(sentence, 0, OpenIndex(candidate, sentence))
       IN /\ definition.start = from
          /\ definition.stop = Len(RStrip(before))
          /\ definition.value = PySlice(sentence, from, Len(RStrip(before)))

\* the alphanumeric characters of s, lower-cased
RECURSIVE AlnumLower(_)
AlnumLower(s) ==
    IF s = << >> THEN << >>
    ELSE (IF IsAlnum(s[1]) THEN <<LowerChar(s[1])>> ELSE << >>) \o AlnumLower(Tail(s))

\* a occurs in b as a subsequence
RECURSIVE IsSubsequence(_, _)
IsSubsequence(a, b) ==
    IF a = << >> THEN TRUE
    ELSE IF b = << >> THEN FALSE
    ELSE IF a[1] = b[1] THEN IsSubsequence(Tail(a), Tail(b))
    ELSE IsSubsequence(a, Tail(b))

\* C10: when the alignment loop ends in success, the abbreviation's
\* alphanumeric characters are a subsequence of the narrowed definition
\* (case-insensitively), its first character is the narrowed definition's
\* first character, and the narrowed definition starts the raw one or
\* follows a non-alphanumeric character of it.
C10_AlignmentClaim ==
    (pc = "validate"
       /\ Len(definition.value) >= Len(candidate.value)
       /\ ~FullWord(definition, candidate)) =>
       LET r == AlignLoop(definition.value, candidate.value, -1, -1)
           narrowed == Narrowed(definition, r.lindex).value
       IN r.kind = "break" =>
             /\ narrowed # << >>
             /\ LowerChar(narrowed[1]) = LowerChar(candidate.value[1])
             /\ IsSubsequence(AlnumLower(candidate.value), Lower(narrowed))
             /\ \/ r.lindex = -Len(definition.value)
                \/ ~IsAlnum(NegAt(definition.value, r.lindex - 1))

====
